---- MODULE Spec2Model ----
(***************************************************************************)
(* A model of django-optimizations: the thumbnail cache                    *)
(* (optimizations/thumbnailcache.py) and the javascript cache              *)
(* (optimizations/javascriptcache.py).                                     *)
(*                                                                         *)
(* Python floats are modelled by exact rational arithmetic on integers;    *)
(* on the sizes the model draws the two agree (round() of Python 2 rounds  *)
(* half away from zero and returns a float, Size() truncates with int()).  *)
(***************************************************************************)
EXTENDS Integers, Sequences, FiniteSets, TLC

\* ------------------------------------------------------------------------
\* Bounds of the model.
\* ------------------------------------------------------------------------

\* Largest width or height of a source image.
MaxDim == 3

\* Largest width or height a caller requests.
MaxReq == 3

\* Largest axis of the sizes Size.constrain is applied to.
MaxGeom == 8

\* Largest axis of the sizes _resize_cropped is applied to.
MaxCrop == 18

\* Longest list of scripts handed to get_urls.
MaxAssets == 2

\* ------------------------------------------------------------------------
\* Values.
\* ------------------------------------------------------------------------

\* Python's None as the value of an unset axis of a Size.
None == -1

\* sys.maxint, the stand-in for an unset axis in _size_proportional.  The
\* build has 2^63 - 1; the model keeps a value that exceeds every size it
\* draws by the same orders of magnitude, so that min() picks the same side.
maxint == 1000000

\* The identities of the source assets (AdaptiveAsset(asset).get_id()).
Identities == {"a", "b"}

\* The names the asset cache hands to save().
Names == {"n1", "n2"}

PROPORTIONAL == "proportional"

RESIZE == "resize"

CROP == "crop"

\* Size.__new__: a pair of axes, each an integer or None.
Size(width, height) == [width |-> width, height |-> height]

\* The sizes an image file can have.
NaturalSizes == {Size(w, h) : w \in 1..MaxDim, h \in 1..MaxDim}

\* The image files of the model: a has any size, b is a wide strip.
ImageSizes(asset) == IF asset = "a" THEN NaturalSizes ELSE {Size(MaxDim, 1)}

\* The sizes with a zero axis.
DegenerateSizes == {Size(w, h) : w \in 0..MaxDim, h \in 0..MaxDim} \ NaturalSizes

\* The image files when a may also be degenerate.
AnyImageSizes(asset) ==
    IF asset = "a" THEN NaturalSizes \cup DegenerateSizes ELSE ImageSizes(asset)

\* The values of the width and height arguments of get_thumbnail.
RequestedAxes == {None} \cup (1..MaxReq)

Min(x, y) == IF x <= y THEN x ELSE y

\* int(p / q) in place of round(p / q): the fraction is dropped.
Round_truncating(p, q) == p \div q

\* round(p / q) of Python 2 for p >= 0, q > 0: half away from zero.
Round(p, q) == (2 * p + q) \div (2 * q)

\* Size.intersect with the componentwise maximum.
intersect_largest(self, size) ==
    Size(IF self.width >= size.width THEN self.width ELSE size.width,
         IF self.height >= size.height THEN self.height ELSE size.height)

\* Size.intersect that returns self: sampling may upscale.
intersect_self(self, size) == Size(self.width, self.height)

\* Size.intersect
intersect(self, size) ==
    Size(Min(self.width, size.width), Min(self.height, size.height))

\* Size.constrain without the min() against self: the fit is not clamped.
constrain_unclamped(self, reference) ==
    Size(Round(self.height * reference.width, reference.height),
         Round(self.width * reference.height, reference.width))

\* Size.constrain: reference.aspect is reference.width / reference.height.
constrain(self, reference) ==
    Size(Min(Round(self.height * reference.width, reference.height), self.width),
         Min(Round(self.width * reference.height, reference.width), self.height))

\* Size.constrain raises ZeroDivisionError: reference.aspect divides by the
\* height of reference, and self.width / reference_aspect by an aspect of 0.0.
constrain_raises(self, reference) == reference.height = 0 \/ reference.width = 0

\* The calls <<t, width, height>> of int(t / (float(width) / float(height)))
\* whose exact quotient t * height / width is an integer n and whose double
\* quotient is the double just below n, so that int() gives n - 1
\* (9 / (18 / 14.0) is 6.999999999999999).  These are all such calls with
\* t, width and height up to 20.
div_aspect_short ==
    {<<9, 9, 7>>, <<18, 9, 7>>, <<9, 9, 14>>, <<18, 9, 14>>, <<18, 18, 7>>,
     <<9, 18, 14>>, <<18, 18, 14>>}

\* The calls <<t, width, height>> of int(t * (float(width) / float(height)))
\* whose exact product is an integer n and whose double product is just below
\* n; all such calls with t, width and height up to 20.
mul_aspect_short == {<<11, 15, 11>>, <<13, 15, 13>>}

\* int(t / image_size.aspect), the truncation Size.__new__ applies to the
\* double t / (float(width) / float(height)).
div_aspect(t, image_size) ==
    (t * image_size.height) \div image_size.width
        - (IF <<t, image_size.width, image_size.height>> \in div_aspect_short
           THEN 1 ELSE 0)

\* int(t * image_size.aspect)
mul_aspect(t, image_size) ==
    (t * image_size.width) \div image_size.height
        - (IF <<t, image_size.width, image_size.height>> \in mul_aspect_short
           THEN 1 ELSE 0)

\* _resize_cropped: the size the image is resized to before the crop, the
\* offsets of the crop and its box.  The two aspects are doubles of
\* correctly rounded quotients; for axes up to 20 they compare as the exact
\* fractions do.
_resize_cropped(image_size, thumbnail_image_size) ==
    LET too_wide ==
            image_size.width * thumbnail_image_size.height
                > thumbnail_image_size.width * image_size.height
        pre_cropped_size ==
            IF too_wide
            THEN Size(mul_aspect(thumbnail_image_size.height, image_size),
                      thumbnail_image_size.height)
            ELSE Size(thumbnail_image_size.width,
                      div_aspect(thumbnail_image_size.width, image_size))
        source_x == (pre_cropped_size.width - thumbnail_image_size.width) \div 2
        source_y == (pre_cropped_size.height - thumbnail_image_size.height) \div 2
    IN  [pre_cropped_size |-> pre_cropped_size,
         source_x |-> source_x,
         source_y |-> source_y,
         box |-> <<source_x, source_y,
                   source_x + thumbnail_image_size.width,
                   source_y + thumbnail_image_size.height>>]

\* _replace_null
_replace_null(value, fallback) == IF value = None THEN fallback ELSE value

\* _size
_size(reference, size) ==
    Size(_replace_null(size.width, reference.width),
         _replace_null(size.height, reference.height))

\* _size_proportional
_size_proportional(reference, size) ==
    IF size.width = None /\ size.height = None
    THEN _size(reference, size)
    ELSE constrain(Size(_replace_null(size.width, maxint),
                        _replace_null(size.height, maxint)), reference)

\* _methods with the hash key of RESIZE equal to that of PROPORTIONAL.
_methods_shared_hash_key ==
    [m \in {PROPORTIONAL, RESIZE, CROP} |->
        CASE m = PROPORTIONAL ->
                [get_display_size |-> "_size_proportional", get_data_size |-> "_size",
                 do_resize |-> "_resize", hash_key |-> "resize"]
          [] m = RESIZE ->
                [get_display_size |-> "_size", get_data_size |-> "_size",
                 do_resize |-> "_resize", hash_key |-> "resize"]
          [] m = CROP ->
                [get_display_size |-> "_size", get_data_size |-> "_size_proportional",
                 do_resize |-> "_resize_cropped", hash_key |-> "crop"]]

\* _methods with the two size callbacks of CROP exchanged.
_methods_crop_swapped ==
    [m \in {PROPORTIONAL, RESIZE, CROP} |->
        CASE m = PROPORTIONAL ->
                [get_display_size |-> "_size_proportional", get_data_size |-> "_size",
                 do_resize |-> "_resize", hash_key |-> "resize"]
          [] m = RESIZE ->
                [get_display_size |-> "_size", get_data_size |-> "_size",
                 do_resize |-> "_resize", hash_key |-> "resized"]
          [] m = CROP ->
                [get_display_size |-> "_size_proportional", get_data_size |-> "_size",
                 do_resize |-> "_resize_cropped", hash_key |-> "crop"]]

\* The table _methods: the callbacks are named, SizeCallback applies them.
_methods ==
    [m \in {PROPORTIONAL, RESIZE, CROP} |->
        CASE m = PROPORTIONAL ->
                [get_display_size |-> "_size_proportional", get_data_size |-> "_size",
                 do_resize |-> "_resize", hash_key |-> "resize"]
          [] m = RESIZE ->
                [get_display_size |-> "_size", get_data_size |-> "_size",
                 do_resize |-> "_resize", hash_key |-> "resized"]
          [] m = CROP ->
                [get_display_size |-> "_size", get_data_size |-> "_size_proportional",
                 do_resize |-> "_resize_cropped", hash_key |-> "crop"]]

\* A call of one of the size adjustment callbacks.
SizeCallback(callback, reference, size) ==
    IF callback = "_size_proportional"
    THEN _size_proportional(reference, size)
    ELSE _size(reference, size)

\* A size adjustment callback that constrains before it tests for a request
\* without axes.
size_callback_raises_eager(callback, reference, size) ==
    /\ callback = "_size_proportional"
    /\ constrain_raises(size, reference)

\* The call of a size adjustment callback raises ZeroDivisionError.
size_callback_raises(callback, reference, size) ==
    /\ callback = "_size_proportional"
    /\ ~(size.width = None /\ size.height = None)
    /\ constrain_raises(size, reference)

\* ------------------------------------------------------------------------
\* State.
\* ------------------------------------------------------------------------

VARIABLES
    natural,      \* the size of the image file behind each identity, once read
    size_cache,   \* ThumbnailCache._size_cache, a set of <<id, Size>> entries
    size_opens,   \* how often get_thumbnail opened each source for its size
    request,      \* the arguments of the last get_thumbnail call
    thumb,        \* the Thumbnail the last get_thumbnail call returned
    files,        \* the storage: what is at storage.path(name)
    last_save,    \* the save() run of the asset of thumb: its name and outcome
    raised,       \* the exception that left the last get_thumbnail call
    opener_opens, \* how often the opener of the last call ran Image.open
    threads,      \* concurrent get_thumbnail calls: position and locals of each
    geom,         \* a call of a geometry function: its arguments and result
    js_call,      \* the arguments of the last get_urls call
    js_asset,     \* the JavascriptAsset the last get_urls call constructed
    urls,         \* the get_url calls of the last get_urls call, in order
    js_files,     \* the storage of the javascript cache
    js_save,      \* the JavascriptAsset.save run of the last get_urls call
    idp           \* two derivatives and their identifier parameters

vars == <<natural, size_cache, size_opens, request, thumb, files, last_save,
          raised, opener_opens, threads, geom,
          js_call, js_asset, urls, js_files, js_save, idp>>

thumb_vars == <<natural, size_cache, size_opens, request, thumb, files, last_save,
                raised, opener_opens>>

js_vars == <<js_call, js_asset, urls, js_files, js_save>>

\* The threads that call get_thumbnail concurrently.
Threads == {"t1", "t2"}

\* A thread outside get_thumbnail.
Idle == [pc |-> "idle", asset |-> "", original |-> Size(None, None), opened |-> FALSE]

\* No geometry function called.
NoGeom ==
    [op |-> "none", self |-> Size(None, None), reference |-> Size(None, None),
     result |-> Size(None, None)]

\* Size(None, None): also the value of natural for a file not read yet.
NoSize == Size(None, None)

NoRequest == [asset |-> "", width |-> None, height |-> None, method |-> ""]

\* No Thumbnail returned yet.
NoThumbnail ==
    [kind |-> "none", asset |-> "", opener |-> "none", original |-> NoSize,
     display |-> NoSize, data |-> NoSize, method |-> "", width |-> None,
     height |-> None]

NoSave ==
    [name |-> "", resized |-> FALSE, written |-> "none", raised |-> "none"]

\* dict.get(key) is not None
cache_has(cache, key) == \E e \in cache : e[1] = key

\* dict.get(key)
cache_get(cache, key) == (CHOOSE e \in cache : e[1] = key)[2]

\* dict[key] = value
cache_set(cache, key, value) == {e \in cache : e[1] # key} \cup {<<key, value>>}

\* ------------------------------------------------------------------------
\* ThumbnailCache.get_thumbnail
\* ------------------------------------------------------------------------

\* make_thumbnail that tests the display size, not the data size, against
\* the original size.
make_thumbnail_display_test(asset, original_size, requested_size, method_name, opened) ==
    LET method == _methods[method_name]
        display_size ==
            SizeCallback(method.get_display_size, original_size, requested_size)
        data_size ==
            SizeCallback(method.get_data_size, display_size,
                         intersect(display_size, original_size))
    IN  [kind |-> IF display_size = original_size THEN "identity" ELSE "thumbnail",
         asset |-> asset,
         opener |-> IF opened THEN "open" ELSE "unopened",
         original |-> original_size,
         display |-> display_size,
         data |-> data_size,
         method |-> method_name,
         width |-> display_size.width,
         height |-> display_size.height]

\* The Thumbnail of get_thumbnail, from the original size it resolved;
\* opened tells whether the opener was advanced to read that size.
make_thumbnail(asset, original_size, requested_size, method_name, opened) ==
    LET method == _methods[method_name]
        display_size ==
            SizeCallback(method.get_display_size, original_size, requested_size)
        data_size ==
            SizeCallback(method.get_data_size, display_size,
                         intersect(display_size, original_size))
    IN  [kind |-> IF data_size = original_size THEN "identity" ELSE "thumbnail",
         asset |-> asset,
         opener |-> IF opened THEN "open" ELSE "unopened",
         original |-> original_size,
         display |-> display_size,
         data |-> data_size,
         method |-> method_name,
         width |-> display_size.width,
         height |-> display_size.height]

\* Lines 245 and 246 of get_thumbnail raise ZeroDivisionError.
get_thumbnail_raises(original_size, requested_size, method_name) ==
    LET method == _methods[method_name]
    IN  \/ size_callback_raises(method.get_display_size, original_size, requested_size)
        \/ LET display_size ==
                    SizeCallback(method.get_display_size, original_size, requested_size)
            IN  size_callback_raises(method.get_data_size, display_size,
                                     intersect(display_size, original_size))

\* next(opener) where every use runs Image.open again.
next_opener_reopening(opener) == [opener |-> "open", opens |-> 1]

\* next(opener): the generator of image_opener runs Image.open on its first
\* use and yields the same image_data on every later one.
next_opener(opener) ==
    [opener |-> "open", opens |-> IF opener = "unopened" THEN 1 ELSE 0]

\* The memo is replaced by one that holds the new entry only.
memoize_size_replacing(cache, asset_id, original_size) ==
    {<<asset_id, original_size>>}

\* The size is not memoized.
memoize_size_skipped(cache, asset_id, original_size) == cache

\* self._size_cache[asset_id] = original_size
memoize_size(cache, asset_id, original_size) ==
    cache_set(cache, asset_id, original_size)

\* get_thumbnail(asset, width, height, method) with a valid method name.  On a
\* memo miss the opener is advanced: Image.open reads the file, whose size is
\* image_size.  A ZeroDivisionError of the size callbacks leaves the call after
\* the size was memoized.
GetThumbnail(asset, width, height, method_name, image_size) ==
    LET requested_size == Size(width, height)
        asset_id == asset
        hit == cache_has(size_cache, asset_id)
        original_size == IF hit THEN cache_get(size_cache, asset_id) ELSE image_size
        opens == IF hit THEN 0 ELSE next_opener("unopened").opens
        fails == get_thumbnail_raises(original_size, requested_size, method_name)
    IN  /\ method_name \in DOMAIN _methods
        /\ natural' = IF hit THEN natural ELSE [natural EXCEPT ![asset] = image_size]
        /\ size_opens' = IF hit THEN size_opens
                         ELSE [size_opens EXCEPT ![asset_id] = @ + 1]
        /\ size_cache' = IF hit THEN size_cache
                         ELSE memoize_size(size_cache, asset_id, original_size)
        /\ request' = [asset |-> asset, width |-> width, height |-> height,
                       method |-> method_name]
        /\ opener_opens' = opens
        /\ IF fails
           THEN /\ thumb' = NoThumbnail
                /\ raised' = "ZeroDivisionError"
           ELSE /\ thumb' = make_thumbnail(asset, original_size, requested_size,
                                           method_name, ~hit)
                /\ raised' = "none"
        /\ last_save' = NoSave
        /\ UNCHANGED files
        /\ UNCHANGED js_vars
        /\ UNCHANGED idp
        /\ UNCHANGED <<threads, geom>>

\* ------------------------------------------------------------------------
\* Concurrent calls of get_thumbnail on one ThumbnailCache.  A thread runs
\* get_thumbnail(asset) with the default width, height and method; the
\* interpreter runs a dict operation as one step, so the steps of a call are
\* the lookup of line 240, the open of line 242, the store of line 243 and
\* the rest of the call, which works on locals.
\* ------------------------------------------------------------------------

\* Lines 226-241: the call up to the lookup of the size memo.
Lookup(t, asset) ==
    LET asset_id == asset
        hit == cache_has(size_cache, asset_id)
    IN  /\ threads[t].pc = "idle"
        /\ threads' = [threads EXCEPT ![t] =
                IF hit
                THEN [pc |-> "resolved", asset |-> asset,
                      original |-> cache_get(size_cache, asset_id), opened |-> FALSE]
                ELSE [pc |-> "miss", asset |-> asset, original |-> NoSize,
                      opened |-> FALSE]]
        /\ UNCHANGED thumb_vars
        /\ UNCHANGED js_vars
        /\ UNCHANGED <<idp, geom>>

\* Line 242: next(opener) opens the file and the call reads its size.
OpenSource(t, image_size) ==
    LET asset == threads[t].asset
    IN  /\ threads[t].pc = "miss"
        /\ natural' = [natural EXCEPT ![asset] = image_size]
        /\ size_opens' = [size_opens EXCEPT ![asset] =
                            @ + next_opener("unopened").opens]
        /\ threads' = [threads EXCEPT ![t] =
                [pc |-> "opened", asset |-> asset, original |-> image_size,
                 opened |-> TRUE]]
        /\ UNCHANGED <<size_cache, request, thumb, files, last_save, raised,
                       opener_opens>>
        /\ UNCHANGED js_vars
        /\ UNCHANGED <<idp, geom>>

\* Line 243: the size read is stored in the memo.
Memoize(t) ==
    /\ threads[t].pc = "opened"
    /\ size_cache' = memoize_size(size_cache, threads[t].asset, threads[t].original)
    /\ threads' = [threads EXCEPT ![t].pc = "resolved"]
    /\ UNCHANGED <<natural, size_opens, request, thumb, files, last_save, raised,
                   opener_opens>>
    /\ UNCHANGED js_vars
    /\ UNCHANGED <<idp, geom>>

\* Lines 244-253: the Thumbnail is computed and returned.  The thread keeps
\* the original size it obtained.
Return(t) ==
    LET asset == threads[t].asset
        original_size == threads[t].original
        requested_size == Size(None, None)
        fails == get_thumbnail_raises(original_size, requested_size, PROPORTIONAL)
    IN  /\ threads[t].pc = "resolved"
        /\ request' = [asset |-> asset, width |-> None, height |-> None,
                       method |-> PROPORTIONAL]
        /\ opener_opens' = IF threads[t].opened THEN 1 ELSE 0
        /\ IF fails
           THEN /\ thumb' = NoThumbnail
                /\ raised' = "ZeroDivisionError"
           ELSE /\ thumb' = make_thumbnail(asset, original_size, requested_size,
                                           PROPORTIONAL, threads[t].opened)
                /\ raised' = "none"
        /\ last_save' = NoSave
        /\ threads' = [threads EXCEPT ![t].pc = "idle"]
        /\ UNCHANGED <<natural, size_cache, size_opens, files>>
        /\ UNCHANGED js_vars
        /\ UNCHANGED <<idp, geom>>

\* ------------------------------------------------------------------------
\* The geometry functions, each applied once to arguments with positive axes.
\* ------------------------------------------------------------------------

\* The sizes Size.constrain is applied to.
GeomSizes == {Size(w, h) : w \in 1..MaxGeom, h \in 1..MaxGeom}

\* The natural and target sizes _resize_cropped is applied to.
CropSizes == {Size(w, h) : w \in 1..MaxCrop, h \in 1..MaxCrop}

\* self.constrain(reference)
Constrain(self, reference) ==
    /\ geom' = [op |-> "constrain", self |-> self, reference |-> reference,
                result |-> constrain(self, reference)]
    /\ UNCHANGED thumb_vars
    /\ UNCHANGED js_vars
    /\ UNCHANGED <<idp, threads>>

\* _resize_cropped(image, image_size, thumbnail_display_size, thumbnail_image_size)
ResizeCropped(image_size, thumbnail_image_size) ==
    LET cropped == _resize_cropped(image_size, thumbnail_image_size)
    IN  /\ geom' = [op |-> "_resize_cropped", self |-> image_size,
                    reference |-> thumbnail_image_size,
                    result |-> cropped.pre_cropped_size,
                    source_x |-> cropped.source_x,
                    source_y |-> cropped.source_y,
                    box |-> cropped.box]
        /\ UNCHANGED thumb_vars
        /\ UNCHANGED js_vars
        /\ UNCHANGED <<idp, threads>>

\* A method name that is no key of _methods.
InvalidMethods == {"scale"}

\* What the raise statement of the KeyError handler produces.  It passes the
\* keyword method twice to str.format and none for the {methods} field of its
\* message, which Python rejects with "SyntaxError: keyword argument
\* repeated" when it compiles the call: the ValueError is never built.
invalid_method_error == "SyntaxError"

\* get_thumbnail(asset, width, height, method) with a method name that is no
\* key of _methods: the handler of the KeyError runs before the asset is
\* adapted.
GetThumbnailInvalidMethod(asset, width, height, method_name) ==
    /\ method_name \notin DOMAIN _methods
    /\ request' = [asset |-> asset, width |-> width, height |-> height,
                   method |-> method_name]
    /\ thumb' = NoThumbnail
    /\ raised' = invalid_method_error
    /\ opener_opens' = 0
    /\ last_save' = NoSave
    /\ UNCHANGED <<natural, size_cache, size_opens, files>>
    /\ UNCHANGED js_vars
    /\ UNCHANGED idp
    /\ UNCHANGED <<threads, geom>>

\* ------------------------------------------------------------------------
\* ThumbnailAsset.save
\* ------------------------------------------------------------------------

\* The asset cache materializes a derivative only when the store has no
\* artifact under its name.
store_miss(storage, name) == storage[name] = "absent"

\* do_resize raises whatever the image data: _resize_cropped divides by the
\* height of the data size when it takes thumbnail_image_size.aspect, by the
\* height of the image size when it takes image_size.aspect, and by an
\* image_aspect of 0.0.
resize_must_raise(asset) ==
    /\ _methods[asset.method].do_resize = "_resize_cropped"
    /\ \/ asset.data.height = 0
       \/ asset.original.height = 0
       \/ asset.original.width = 0

\* image_data.save(thumbnail_path): write is what reached the path.
image_save(storage, thumbnail_path, write) ==
    IF write = "none" THEN storage ELSE [storage EXCEPT ![thumbnail_path] = write]

\* The handler of a failed image_data.save without the os.unlink.
remove_incomplete_skipped(storage, thumbnail_path) == storage

\* The handler of a failed image_data.save: os.unlink(thumbnail_path), an
\* error of which (no file there) is ignored.
remove_incomplete(storage, thumbnail_path) ==
    [storage EXCEPT ![thumbnail_path] = "absent"]

\* ThumbnailAsset.save(storage, name), run for the asset of the last Thumbnail
\* on a store miss.  resize_ok: do_resize returned; write: what image_data.save
\* left at the path ("complete" when it returned, "partial" or "none" when it
\* raised).
ThumbnailAsset_save(name, resize_ok, write) ==
    LET thumbnail_path == name
        image_data == next_opener(thumb.opener)
        written == image_save(files, thumbnail_path, write)
    IN  /\ thumb.kind = "thumbnail"
        /\ store_miss(files, name)
        /\ resize_must_raise(thumb) => ~resize_ok
        /\ ~resize_ok => write = "none"
        /\ thumb' = [thumb EXCEPT !.opener = image_data.opener]
        /\ opener_opens' = opener_opens + image_data.opens
        /\ IF ~resize_ok
           THEN /\ files' = files
                /\ last_save' = [name |-> name, resized |-> FALSE,
                                 written |-> "none", raised |-> "IOError"]
           ELSE IF write = "complete"
           THEN /\ files' = written
                /\ last_save' = [name |-> name, resized |-> TRUE,
                                 written |-> write, raised |-> "none"]
           ELSE /\ files' = remove_incomplete(written, thumbnail_path)
                /\ last_save' = [name |-> name, resized |-> TRUE,
                                 written |-> write, raised |-> "IOError"]
        /\ UNCHANGED <<natural, size_cache, size_opens, request, raised>>
        /\ UNCHANGED js_vars
        /\ UNCHANGED idp
        /\ UNCHANGED <<threads, geom>>

\* ------------------------------------------------------------------------
\* JavascriptAsset and JavascriptCache
\* ------------------------------------------------------------------------

\* The lists of script assets a caller hands to get_urls.
AssetLists == UNION {[1..n -> Identities] : n \in 0..MaxAssets}

\* process.returncode of the compiler: zero, or not.
ReturnCodes == {0, 1}

\* JavascriptAsset.__init__
JavascriptAsset(assets, compile, fail_silently) ==
    [constructed |-> TRUE, assets |-> assets, compile |-> compile,
     fail_silently |-> fail_silently]

\* No JavascriptAsset constructed.
NoJavascriptAsset ==
    [constructed |-> FALSE, assets |-> <<>>, compile |-> FALSE,
     fail_silently |-> FALSE]

NoJsCall ==
    [called |-> FALSE, assets |-> <<>>, compile |-> FALSE, force_save |-> FALSE,
     fail_silently |-> FALSE]

\* No run of JavascriptAsset.save.
NoJsSave ==
    [ran |-> FALSE, name |-> "", compiler |-> FALSE, returncode |-> 0,
     logged |-> FALSE, raised |-> "none", touched |-> FALSE]

\* storage.save(name, file): the content of file is stored under name.
storage_save(storage, name, content) == [storage EXCEPT ![name] = content]

\* JavascriptAsset.save that falls back to the joined sources whatever
\* fail_silently says.
JavascriptAsset_save_always_silent(self, storage, name, returncode) ==
    IF self.compile
    THEN IF returncode # 0
         THEN [storage |-> storage_save(storage, name, "joined"),
               compiler |-> TRUE, logged |-> TRUE, raised |-> "none"]
         ELSE [storage |-> storage_save(storage, name, "compiled"),
               compiler |-> TRUE, logged |-> FALSE, raised |-> "none"]
    ELSE [storage |-> storage_save(storage, name, "joined"),
          compiler |-> FALSE, logged |-> FALSE, raised |-> "none"]

\* JavascriptAsset.save(storage, name): the storage it leaves, and what it did.
\* The content is "compiled" for the compiler's stdoutdata and "joined" for
\* self.get_contents(), the sources joined by join_str.
JavascriptAsset_save(self, storage, name, returncode) ==
    IF self.compile
    THEN IF returncode # 0
         THEN IF ~self.fail_silently
              THEN [storage |-> storage, compiler |-> TRUE, logged |-> TRUE,
                    raised |-> "JavascriptError"]
              ELSE [storage |-> storage_save(storage, name, "joined"),
                    compiler |-> TRUE, logged |-> TRUE, raised |-> "none"]
         ELSE [storage |-> storage_save(storage, name, "compiled"),
               compiler |-> TRUE, logged |-> FALSE, raised |-> "none"]
    ELSE [storage |-> storage_save(storage, name, "joined"),
          compiler |-> FALSE, logged |-> FALSE, raised |-> "none"]

\* get_urls without the test for an empty list of assets.
get_url_calls_unguarded(assets, force_save) ==
    IF force_save
    THEN <<[source |-> "", grouped |-> TRUE, force_save |-> "True"]>>
    ELSE [i \in 1..Len(assets) |->
            [source |-> assets[i], grouped |-> FALSE, force_save |-> "unset"]]

\* The get_url calls get_urls makes, in order: each names the asset it is for
\* (a source, or the grouped JavascriptAsset) and the force_save it passes.
get_url_calls(assets, force_save) ==
    IF force_save
    THEN IF assets # <<>>
         THEN <<[source |-> "", grouped |-> TRUE, force_save |-> "True"]>>
         ELSE <<>>
    ELSE [i \in 1..Len(assets) |->
            [source |-> assets[i], grouped |-> FALSE, force_save |-> "unset"]]

\* JavascriptCache.get_urls(assets, compile, force_save, fail_silently).  The
\* asset cache answers get_url(asset, force_save=True) under the name it gives
\* the asset: on a store miss it runs asset.save(storage, name), where the
\* compiler exits with returncode.  get_url(asset) for a source is a direct
\* reference and stores nothing.
GetUrls(assets, compile, force_save, fail_silently, name, returncode) ==
    LET asset == JavascriptAsset(assets, compile, fail_silently)
        calls == get_url_calls(assets, force_save)
        grouped == calls # <<>> /\ calls[1].grouped
        miss == store_miss(js_files, name)
        run == JavascriptAsset_save(asset, js_files, name, returncode)
    IN  /\ js_call' = [called |-> TRUE, assets |-> assets, compile |-> compile,
                       force_save |-> force_save, fail_silently |-> fail_silently]
        /\ urls' = calls
        /\ js_asset' = IF grouped THEN asset ELSE NoJavascriptAsset
        /\ IF grouped /\ miss
           THEN /\ js_files' = run.storage
                /\ js_save' = [ran |-> TRUE, name |-> name,
                               compiler |-> run.compiler,
                               returncode |-> IF run.compiler THEN returncode ELSE 0,
                               logged |-> run.logged, raised |-> run.raised,
                               touched |-> TRUE]
           ELSE /\ js_files' = js_files
                /\ js_save' = [NoJsSave EXCEPT !.touched = grouped,
                                               !.name = IF grouped THEN name ELSE ""]
        /\ UNCHANGED thumb_vars
        /\ UNCHANGED idp
        /\ UNCHANGED <<threads, geom>>

\* ------------------------------------------------------------------------
\* Identifier parameters
\* ------------------------------------------------------------------------

\* ThumbnailAsset.get_id_params: the base Asset contributes no parameter.
ThumbnailAsset_get_id_params(self) ==
    [width |-> self.display.width, height |-> self.display.height,
     method |-> _methods[self.method].hash_key]

\* GroupedAsset.get_id_params: the identities of the grouped assets, in order.
GroupedAsset_get_id_params(self) == [assets |-> self.assets]

\* JavascriptAsset.get_id_params that also records fail_silently.
JavascriptAsset_get_id_params_fail_silently(self) ==
    [assets |-> GroupedAsset_get_id_params(self).assets, compile |-> self.compile,
     fail_silently |-> self.fail_silently]

\* JavascriptAsset.get_id_params
JavascriptAsset_get_id_params(self) ==
    [assets |-> GroupedAsset_get_id_params(self).assets, compile |-> self.compile]

\* The display sizes a ThumbnailAsset can carry.
DisplaySizes == {Size(w, h) : w \in 0..MaxReq, h \in 0..MaxReq}

\* ThumbnailAssets over one source, reduced to the fields get_id_params reads.
ThumbnailAssets ==
    {[display |-> d, method |-> m] : d \in DisplaySizes, m \in DOMAIN _methods}

JavascriptAssets ==
    {JavascriptAsset(l, c, f) : l \in AssetLists, c \in BOOLEAN, f \in BOOLEAN}

NoIdp == [type |-> "none", a |-> 0, b |-> 0, params_a |-> 0, params_b |-> 0]

\* get_id_params of two ThumbnailAssets over the same source.
ThumbnailIdParams(a, b) ==
    /\ idp = NoIdp
    /\ idp' = [type |-> "ThumbnailAsset", a |-> a, b |-> b,
               params_a |-> ThumbnailAsset_get_id_params(a),
               params_b |-> ThumbnailAsset_get_id_params(b)]
    /\ UNCHANGED thumb_vars
    /\ UNCHANGED js_vars
    /\ UNCHANGED <<threads, geom>>

\* get_id_params of two JavascriptAssets.
JavascriptIdParams(a, b) ==
    /\ idp = NoIdp
    /\ idp' = [type |-> "JavascriptAsset", a |-> a, b |-> b,
               params_a |-> JavascriptAsset_get_id_params(a),
               params_b |-> JavascriptAsset_get_id_params(b)]
    /\ UNCHANGED thumb_vars
    /\ UNCHANGED js_vars
    /\ UNCHANGED <<threads, geom>>

\* ------------------------------------------------------------------------
\* Specifications
\* ------------------------------------------------------------------------

\* ThumbnailCache() and JavascriptCache() constructed, the storage empty.
Init ==
    /\ natural = [i \in Identities |-> NoSize]
    /\ size_cache = {}
    /\ size_opens = [i \in Identities |-> 0]
    /\ request = NoRequest
    /\ thumb = NoThumbnail
    /\ files = [n \in Names |-> "absent"]
    /\ last_save = NoSave
    /\ raised = "none"
    /\ opener_opens = 0
    /\ threads = [t \in Threads |-> Idle]
    /\ geom = NoGeom
    /\ js_call = NoJsCall
    /\ js_asset = NoJavascriptAsset
    /\ urls = <<>>
    /\ js_files = [n \in Names |-> "absent"]
    /\ js_save = NoJsSave
    /\ idp = NoIdp

DoGetThumbnail ==
    \E asset \in Identities, width \in RequestedAxes, height \in RequestedAxes,
       method_name \in DOMAIN _methods :
        \E image_size \in (IF natural[asset] = NoSize THEN ImageSizes(asset)
                           ELSE {natural[asset]}) :
            GetThumbnail(asset, width, height, method_name, image_size)

DoGetThumbnailAnySize ==
    \E asset \in Identities, width \in RequestedAxes, height \in RequestedAxes,
       method_name \in DOMAIN _methods :
        \E image_size \in (IF natural[asset] = NoSize THEN AnyImageSizes(asset)
                           ELSE {natural[asset]}) :
            GetThumbnail(asset, width, height, method_name, image_size)

DoGetThumbnailInvalidMethod ==
    \E asset \in Identities, width \in RequestedAxes, height \in RequestedAxes,
       method_name \in InvalidMethods :
        GetThumbnailInvalidMethod(asset, width, height, method_name)

DoLookup == \E t \in Threads, asset \in Identities : Lookup(t, asset)

DoOpenSource ==
    \E t \in {u \in Threads : threads[u].pc = "miss"} :
        \E image_size \in (IF natural[threads[t].asset] = NoSize
                           THEN ImageSizes(threads[t].asset)
                           ELSE {natural[threads[t].asset]}) :
            OpenSource(t, image_size)

DoMemoize == \E t \in Threads : Memoize(t)

DoReturn == \E t \in Threads : Return(t)

\* One function is applied, once.
DoConstrain ==
    /\ geom = NoGeom
    /\ \E self \in GeomSizes, reference \in GeomSizes : Constrain(self, reference)

DoResizeCropped ==
    /\ geom = NoGeom
    /\ \E image_size \in CropSizes, thumbnail_image_size \in CropSizes :
            ResizeCropped(image_size, thumbnail_image_size)

DoSave ==
    \E name \in Names, resize_ok \in BOOLEAN, write \in {"complete", "partial", "none"} :
        ThumbnailAsset_save(name, resize_ok, write)

DoGetUrls ==
    \E assets \in AssetLists, compile \in BOOLEAN, force_save \in BOOLEAN,
       fail_silently \in BOOLEAN, name \in Names, returncode \in ReturnCodes :
        GetUrls(assets, compile, force_save, fail_silently, name, returncode)

DoThumbnailIdParams == \E a \in ThumbnailAssets, b \in ThumbnailAssets : ThumbnailIdParams(a, b)

DoJavascriptIdParams ==
    \E a \in JavascriptAssets, b \in JavascriptAssets : JavascriptIdParams(a, b)

\* The thumbnail cache.
Next == DoGetThumbnail \/ DoSave

Spec == Init /\ [][Next]_vars

\* The thumbnail cache with its failing calls: sources of a degenerate size
\* and invalid method names.
NextErr == DoGetThumbnailAnySize \/ DoGetThumbnailInvalidMethod

SpecErr == Init /\ [][NextErr]_vars

\* Threads that call get_thumbnail on one ThumbnailCache concurrently.
NextConc == DoLookup \/ DoOpenSource \/ DoMemoize \/ DoReturn

SpecConc == Init /\ [][NextConc]_vars

\* The geometry functions.
NextGeom == DoConstrain \/ DoResizeCropped

SpecGeom == Init /\ [][NextGeom]_vars

\* The javascript cache.
NextJs == DoGetUrls

SpecJs == Init /\ [][NextJs]_vars

\* The identifier parameters of derivatives.
NextId == DoThumbnailIdParams \/ DoJavascriptIdParams

SpecId == Init /\ [][NextId]_vars

\* ------------------------------------------------------------------------
\* Properties
\* ------------------------------------------------------------------------

\* A Thumbnail was returned for a request of the given method.
Returned(method_name) == thumb.kind # "none" /\ request.method = method_name

\* The requested size with its unset axes filled from the natural size.
Filled(requested, original) ==
    Size(IF requested.width = None THEN original.width ELSE requested.width,
         IF requested.height = None THEN original.height ELSE requested.height)

\* d has the aspect ratio of n within integer rounding: one axis of d is the
\* other one scaled by n's aspect ratio and rounded to the nearest integer.
AspectWithinRounding(d, n) ==
    \/ 2 * d.height * n.width - n.width <= 2 * d.width * n.height
       /\ 2 * d.width * n.height <= 2 * d.height * n.width + n.width
    \/ 2 * d.width * n.height - n.height <= 2 * d.height * n.width
       /\ 2 * d.height * n.width <= 2 * d.width * n.height + n.height

(* C1: whenever ThumbnailAsset.save(storage, name) fails with IOError, because
   the resize raised or because writing the image raised, no file exists at
   storage.path(name) when the error leaves save. *)
C1_FailedSaveLeavesNoFile ==
    last_save.raised = "IOError" => files[last_save.name] = "absent"

\* A write that failed after part of the file was written, and was cleaned up.
C1_Witness ==
    /\ last_save.raised = "IOError"
    /\ last_save.resized
    /\ last_save.written = "partial"
    /\ files[last_save.name] = "absent"

(* C2: over any sequence of get_thumbnail calls the source of an identity is
   opened for its natural size exactly once: by the first call for that
   identity, which stores the size in the memo; later calls for it read the
   memo, whatever their width, height and method. *)
C2_SizeReadOncePerIdentity ==
    \A i \in Identities :
        /\ size_opens[i] = IF cache_has(size_cache, i) THEN 1 ELSE 0
        /\ cache_has(size_cache, i) => cache_get(size_cache, i) = natural[i]
        /\ (thumb.kind # "none" /\ thumb.asset = i) =>
                /\ cache_has(size_cache, i)
                /\ thumb.original = natural[i]

\* A later call for an identity whose size the memo held: it did not open the
\* source, and the other identity was resolved too.
C2_Witness ==
    /\ thumb.kind # "none"
    /\ thumb.opener = "unopened"
    /\ size_opens[thumb.asset] = 1
    /\ \A i \in Identities : cache_has(size_cache, i)
    /\ cache_get(size_cache, "a") # cache_get(size_cache, "b")

(* C3: the identifier parameters of a derivative are a function of its
   parameters that tells them apart: two ThumbnailAssets over one source have
   equal parameters exactly when their display width, display height and
   strategy are equal, and two JavascriptAssets exactly when their ordered
   sources and compile flag are equal. *)
C3_IdParamsTellParametersApart ==
    /\ idp.type = "ThumbnailAsset" =>
        (idp.params_a = idp.params_b
            <=> (idp.a.display = idp.b.display /\ idp.a.method = idp.b.method))
    /\ idp.type = "JavascriptAsset" =>
        (idp.params_a = idp.params_b
            <=> (idp.a.assets = idp.b.assets /\ idp.a.compile = idp.b.compile))

\* Two thumbnails of one display size that differ in the strategy only.
C3_Witness ==
    /\ idp.type = "ThumbnailAsset"
    /\ idp.a.display = idp.b.display
    /\ idp.a.method = PROPORTIONAL
    /\ idp.b.method = RESIZE
    /\ idp.params_a # idp.params_b

(* C4 as stated: the display size of the proportional strategy preserves the
   natural aspect ratio within integer rounding, is within the requested size
   on both axes when both are specified, and is within the natural size when
   an axis of the requested size is unset. *)
C4_Stated ==
    Returned(PROPORTIONAL) =>
        /\ AspectWithinRounding(thumb.display, thumb.original)
        /\ (request.width # None /\ request.height # None) =>
                /\ thumb.display.width <= request.width
                /\ thumb.display.height <= request.height
        /\ (request.width = None \/ request.height = None) =>
                /\ thumb.display.width <= thumb.original.width
                /\ thumb.display.height <= thumb.original.height

(* C4 amended: the display size of the proportional strategy preserves the
   natural aspect ratio within integer rounding, is within the requested size
   on every axis that is specified, and is the natural size when both axes are
   unset. *)
C4_ProportionalFitsSpecifiedAxes ==
    Returned(PROPORTIONAL) =>
        /\ AspectWithinRounding(thumb.display, thumb.original)
        /\ request.width # None => thumb.display.width <= request.width
        /\ request.height # None => thumb.display.height <= request.height
        /\ (request.width = None /\ request.height = None) =>
                thumb.display = thumb.original

\* A request with one axis unset whose display size exceeds the natural size.
C4_Witness ==
    /\ Returned(PROPORTIONAL)
    /\ request.width # None
    /\ request.height = None
    /\ thumb.display.width = request.width
    /\ thumb.display.width > thumb.original.width
    /\ thumb.display.height > thumb.original.height

(* C5: after get_thumbnail applied the strategy, the display size and the
   data size both have a positive width and a positive height. *)
C5_ResolvedSizesPositive ==
    thumb.kind # "none" =>
        /\ thumb.display.width > 0
        /\ thumb.display.height > 0
        /\ thumb.data.width > 0
        /\ thumb.data.height > 0

(* C6: JavascriptAsset.save with compile set saves the compiler's output when
   the compiler exits with 0; when it exits non-zero the diagnostics are
   logged and then, without fail_silently, JavascriptError is raised and
   nothing is saved, and with fail_silently the joined sources are saved. So
   joined sources are saved by a compiling asset only under fail_silently. *)
C6_FallbackOnlyWhenSilent ==
    (js_save.ran /\ js_asset.compile) =>
        /\ js_save.compiler
        /\ js_save.returncode = 0 =>
                /\ js_files[js_save.name] = "compiled"
                /\ js_save.raised = "none"
        /\ js_save.returncode # 0 =>
                /\ js_save.logged
                /\ ~js_asset.fail_silently =>
                        /\ js_save.raised = "JavascriptError"
                        /\ js_files[js_save.name] = "absent"
                /\ js_asset.fail_silently =>
                        /\ js_save.raised = "none"
                        /\ js_files[js_save.name] = "joined"
        /\ js_files[js_save.name] = "joined" =>
                js_asset.fail_silently /\ js_save.returncode # 0

\* A failed compile whose error was raised, nothing saved.
C6_Witness ==
    /\ js_save.ran
    /\ js_asset.compile
    /\ ~js_asset.fail_silently
    /\ js_save.returncode # 0
    /\ js_save.logged
    /\ js_save.raised = "JavascriptError"
    /\ js_files[js_save.name] = "absent"

(* C7 as stated: get_thumbnail returns the source asset itself exactly when
   the resolved size of the thumbnail, the width and height it reports, equals
   the natural size, and a ThumbnailAsset otherwise. *)
C7_Stated ==
    thumb.kind # "none" =>
        (thumb.kind = "identity" <=> thumb.display = thumb.original)

(* C7 amended: get_thumbnail returns the source asset itself exactly when the
   resolved data size equals the natural size, and a ThumbnailAsset otherwise;
   a request for the natural size returns the source asset under every
   strategy. *)
C7_IdentityIffDataSizeNatural ==
    thumb.kind # "none" =>
        /\ thumb.kind = "identity" <=> thumb.data = thumb.original
        /\ Size(request.width, request.height) = thumb.original =>
                /\ thumb.kind = "identity"
                /\ thumb.display = thumb.original

\* The source asset returned for a display size above the natural size.
C7_Witness ==
    /\ thumb.kind = "identity"
    /\ thumb.data = thumb.original
    /\ thumb.display # thumb.original

(* C8 as stated: under the proportional and the exact strategy the data size
   equals the display size. *)
C8_Stated ==
    (Returned(PROPORTIONAL) \/ Returned(RESIZE)) => thumb.data = thumb.display

(* C8 amended: under the proportional and the exact strategy the data size is
   the display size cut down to the natural size, axis by axis; it equals the
   display size when that is within the natural size on both axes. *)
C8_DataSizeIsDisplayWithinNatural ==
    (Returned(PROPORTIONAL) \/ Returned(RESIZE)) =>
        /\ thumb.data.width = Min(thumb.display.width, thumb.original.width)
        /\ thumb.data.height = Min(thumb.display.height, thumb.original.height)
        /\ (/\ thumb.display.width <= thumb.original.width
            /\ thumb.display.height <= thumb.original.height) =>
                thumb.data = thumb.display

\* An exact resize wider than the source: the data size keeps the natural width.
C8_Witness ==
    /\ Returned(RESIZE)
    /\ thumb.display.width > thumb.original.width
    /\ thumb.data.width = thumb.original.width
    /\ thumb.data # thumb.display

(* C9: under the crop strategy the display size is the requested size with
   its unset axes filled from the natural size; it is the requested size when
   both axes are specified, whatever the natural aspect ratio. *)
C9_CropDisplayIsRequested ==
    Returned(CROP) =>
        /\ thumb.display = Filled(Size(request.width, request.height), thumb.original)
        /\ (request.width # None /\ request.height # None) =>
                thumb.display = Size(request.width, request.height)

\* A crop to a size of another aspect ratio than the source's.
C9_Witness ==
    /\ Returned(CROP)
    /\ request.width # None
    /\ request.height # None
    /\ request.width * thumb.original.height # request.height * thumb.original.width
    /\ thumb.display = Size(request.width, request.height)

(* C10: get_urls without force_save asks for one direct reference per source,
   in source order, and constructs no JavascriptAsset and runs no compiler,
   whatever compile is; with force_save and sources it asks for exactly one
   URL, that of the JavascriptAsset over them, with force_save set; with
   force_save and no source it asks for nothing and touches no storage. *)
C10_GetUrlsModes ==
    js_call.called =>
        /\ ~js_call.force_save =>
                /\ Len(urls) = Len(js_call.assets)
                /\ \A i \in 1..Len(urls) :
                        /\ urls[i].source = js_call.assets[i]
                        /\ ~urls[i].grouped
                /\ ~js_asset.constructed
                /\ ~js_save.ran
                /\ ~js_save.compiler
                /\ ~js_save.touched
        /\ (js_call.force_save /\ js_call.assets # <<>>) =>
                /\ Len(urls) = 1
                /\ urls[1].grouped
                /\ urls[1].force_save = "True"
                /\ js_asset = JavascriptAsset(js_call.assets, js_call.compile,
                                              js_call.fail_silently)
        /\ (js_call.force_save /\ js_call.assets = <<>>) =>
                /\ urls = <<>>
                /\ ~js_asset.constructed
                /\ ~js_save.ran
                /\ ~js_save.touched

\* Pass-through of two different scripts with compile set.
C10_Witness ==
    /\ js_call.called
    /\ ~js_call.force_save
    /\ js_call.compile
    /\ Len(urls) = 2
    /\ urls[1].source = "b"
    /\ urls[2].source = "a"
    /\ ~js_asset.constructed

\* A get_thumbnail call was made.
Called == request # NoRequest

\* A size with a zero axis.
Degenerate(size) == size.width = 0 \/ size.height = 0

(* C11: get_thumbnail called with a method name that is none of proportional,
   resize and crop fails with a ValueError naming the valid methods, before
   the source is opened and before the size memo is read or written. *)
C11_InvalidMethodIsValueError ==
    (Called /\ request.method \notin DOMAIN _methods) =>
        /\ raised = "ValueError"
        /\ thumb.kind = "none"
        /\ opener_opens = 0

(* C13 as stated: every get_thumbnail call on a source whose natural size has
   a zero axis fails with the error of the division by zero and returns no
   Thumbnail. *)
C13_Stated ==
    (Called /\ request.method \in DOMAIN _methods
        /\ Degenerate(natural[request.asset])) =>
            /\ raised = "ZeroDivisionError"
            /\ thumb.kind = "none"

\* The call of request constrains a size to a reference with a zero axis: the
\* proportional strategy with a requested axis set constrains to the natural
\* size, the crop strategy constrains to the display size.
ConstrainsToDegenerate ==
    LET requested == Size(request.width, request.height)
        original == natural[request.asset]
    IN  \/ /\ request.method = PROPORTIONAL
           /\ requested # NoSize
           /\ Degenerate(original)
        \/ /\ request.method = CROP
           /\ Degenerate(Filled(requested, original))

(* C13 amended: a division by a zero axis fails fast, so that no Thumbnail is
   built from an infinite or undefined aspect ratio: a get_thumbnail call
   fails with ZeroDivisionError exactly when it constrains a size to a
   reference with a zero axis, which on a degenerate source is the proportional
   strategy with a requested axis set and the crop strategy with a zero axis in
   its display size; every other call on a degenerate source returns a
   Thumbnail. *)
C13_FailsWhereItConstrains ==
    (Called /\ request.method \in DOMAIN _methods) =>
        /\ raised = "ZeroDivisionError" <=> ConstrainsToDegenerate
        /\ raised = "none" <=> thumb.kind # "none"
        /\ raised \in {"none", "ZeroDivisionError"}

\* A crop of a degenerate source that failed, the size memoized all the same.
C13_Witness ==
    /\ Called
    /\ request.method = CROP
    /\ Degenerate(natural[request.asset])
    /\ raised = "ZeroDivisionError"
    /\ thumb.kind = "none"
    /\ cache_has(size_cache, request.asset)

\* The thread holds the natural size its call obtained.
Obtained(t) == threads[t].original # NoSize

\* Every entry of the size memo is the natural size of its identity, and
\* threads that called for one identity obtained one size.
MemoSound ==
    /\ \A e \in size_cache : e[2] = natural[e[1]] /\ e[2] \in NaturalSizes
    /\ \A i \in Identities : Cardinality({e \in size_cache : e[1] = i}) <= 1
    /\ \A t, u \in Threads :
            (Obtained(t) /\ Obtained(u) /\ threads[t].asset = threads[u].asset) =>
                threads[t].original = threads[u].original
    /\ \A t \in Threads : Obtained(t) => threads[t].original = natural[threads[t].asset]

(* C12: under any interleaving of concurrent get_thumbnail calls every entry
   visible in the size memo is the natural size of its identity, an entry
   once written is never removed or changed, and two callers that race on one
   identity obtain the same natural size. *)
C12_MemoSoundUnderRaces ==
    [][MemoSound' /\ \A e \in size_cache : e \in size_cache']_vars

\* Two threads raced on one identity: both missed the memo and opened the
\* source, both obtained its size, and the memo holds it.
C12_Witness ==
    /\ threads["t1"].asset = threads["t2"].asset
    /\ threads["t1"].opened
    /\ threads["t2"].opened
    /\ Obtained("t1")
    /\ threads["t1"].original = threads["t2"].original
    /\ size_opens[threads["t1"].asset] = 2
    /\ cache_has(size_cache, threads["t1"].asset)

\* n is an integer nearest to the fraction p / q, for q > 0.
Nearest(n, p, q) == 2 * q * n - 2 * p <= q /\ 2 * p - 2 * q * n <= q

(* C14: for sizes with positive axes, Size.constrain(self, reference) returns
   a size that exceeds self on neither axis and equals self on at least one
   axis, the other axis being self's axis with the aspect ratio of reference
   applied, rounded to the nearest integer. *)
C14_ConstrainIsLargestFit ==
    geom.op = "constrain" =>
        LET self == geom.self
            reference == geom.reference
            result == geom.result
        IN  /\ result.width <= self.width
            /\ result.height <= self.height
            /\ \/ /\ result.width = self.width
                  /\ Nearest(result.height, self.width * reference.height,
                             reference.width)
               \/ /\ result.height = self.height
                  /\ Nearest(result.width, self.height * reference.width,
                             reference.height)

\* constrain kept the height of self and rounded the width, which is no
\* integer multiple of the aspect ratio, to a smaller width.
C14_Witness ==
    /\ geom.op = "constrain"
    /\ geom.result.height = geom.self.height
    /\ geom.result.width < geom.self.width
    /\ (geom.self.height * geom.reference.width) % geom.reference.height # 0

(* C15: in _resize_cropped, for every natural size and every target size
   with positive axes, the oversized intermediate size is at least the target
   size on both axes and equals it on one axis, so both crop offsets are
   non-negative and the crop box lies inside the oversized intermediate
   image. *)
C15_CropBoxInsideOversized ==
    geom.op = "_resize_cropped" =>
        LET target == geom.reference
            oversized == geom.result
        IN  /\ oversized.width >= target.width
            /\ oversized.height >= target.height
            /\ oversized.width = target.width \/ oversized.height = target.height
            /\ geom.source_x >= 0
            /\ geom.source_y >= 0
            /\ geom.box[1] >= 0
            /\ geom.box[2] >= 0
            /\ geom.box[3] <= oversized.width
            /\ geom.box[4] <= oversized.height

(* C16: within one get_thumbnail request and the later saves of the
   ThumbnailAsset it returned the source image is opened at most once: the
   opener opens it on its first use (the size resolution on a memo miss, or
   the save on a memo hit) and yields the same image on every later use, and
   a request that hits the memo and is not saved does not open the source. *)
C16_SourceOpenedAtMostOnce ==
    [][/\ opener_opens' <= 1
       /\ last_save' = NoSave =>
            opener_opens' = (IF cache_has(size_cache, request'.asset) THEN 0 ELSE 1)
       /\ last_save' # NoSave =>
            /\ opener_opens' = 1
            /\ opener_opens' - opener_opens =
                    (IF thumb.opener = "unopened" THEN 1 ELSE 0)]_vars

\* An asset was saved, its save failed after the resize, and the source was
\* opened once for the request and the save together.
C16_Witness ==
    /\ thumb.kind = "thumbnail"
    /\ last_save # NoSave
    /\ last_save.resized
    /\ last_save.raised = "IOError"
    /\ thumb.opener = "open"
    /\ opener_opens = 1

(* C17: for every strategy, natural size and requested size the data size
   get_thumbnail computes exceeds the natural size on neither axis, so a
   proportional or exact request whose display size is at least the natural
   size on both axes returns the identity derivative. *)
C17_SamplingNeverUpscales ==
    thumb.kind # "none" =>
        /\ thumb.data.width <= thumb.original.width
        /\ thumb.data.height <= thumb.original.height
        /\ (/\ thumb.method \in {PROPORTIONAL, RESIZE}
            /\ thumb.display.width >= thumb.original.width
            /\ thumb.display.height >= thumb.original.height)
                => thumb.kind = "identity"

\* A proportional request for more than the natural size returned the
\* identity derivative.
C17_Witness ==
    /\ thumb.kind = "identity"
    /\ thumb.method = PROPORTIONAL
    /\ thumb.display.width > thumb.original.width
    /\ thumb.display.height > thumb.original.height
    /\ thumb.data = thumb.original

(* C18: the identifier parameters of a JavascriptAsset do not depend on
   fail_silently: two JavascriptAssets over the same ordered sources with the
   same compile flag have the same identifier parameters, whatever their
   fail_silently flags. *)
C18_IdParamsIgnoreFailSilently ==
    (/\ idp.type = "JavascriptAsset"
     /\ idp.a.assets = idp.b.assets
     /\ idp.a.compile = idp.b.compile)
        => idp.params_a = idp.params_b

\* Two compiling assets over the same two sources that differ in
\* fail_silently only.
C18_Witness ==
    /\ idp.type = "JavascriptAsset"
    /\ Len(idp.a.assets) = 2
    /\ idp.a.assets = idp.b.assets
    /\ idp.a.compile
    /\ idp.b.compile
    /\ idp.a.fail_silently # idp.b.fail_silently
    /\ idp.params_a = idp.params_b

====
